---- MODULE Spec2Model ----
(***************************************************************************)
(* Model of server.py (dadDashboard): the Wake-on-LAN signaler            *)
(* (wake_on_lan), the reachability prober (is_online) and the request     *)
(* handlers built on them (/get-webui, /status/<ip>).                     *)
(*                                                                         *)
(* Strings are sequences of one-character strings, so that the string     *)
(* operations of the code (replace, len, fromhex, urlparse, ip_address)   *)
(* are computed rather than assumed.                                       *)
(***************************************************************************)
EXTENDS Integers, Sequences, FiniteSets, TLC

VARIABLES
    \* SpecWake: one call of wake_on_lan
    mac_in,       \* the argument of wake_on_lan
    wol_pc,       \* "ready" before the call, "done" after it
    wol,          \* the outcome of the call
    \* SpecProbe: one call of is_online, directly or through GET /status/<ip>
    target_in,    \* the argument of is_online
    env_ping,     \* what the ping subprocess will do
    env_http,     \* what the HTTP exchange will do
    probe_pc,     \* "ready", then "called" (is_online) or "served" (/status)
    probe,        \* the outcome of is_online
    status_resp,  \* the response of GET /status/<ip>
    \* Spec: one request POST /get-webui handled by api_log_redirect
    pc,           \* the handler's position
    poll_i,       \* the index of the target being polled (1: first loop, 2: second)
    wake_calls,   \* calls of wake_on_lan so far
    wake_exc,     \* "none", or the exception the call of wake_on_lan raised
    datagrams,    \* the datagrams broadcast so far
    attempts,     \* attempts[i]: calls of is_online on target i so far
    results,      \* results[i]: the booleans is_online returned for target i
    delays,       \* delays[i]: completed time.sleep(1) in loop i
    observations, \* observations[i]: "Waiting for ..." lines printed in loop i
    response,     \* the HTTP response of the request
    \* SpecStart: requests POST /start-ki-server, one after the other
    start_requests, \* requests received so far
    \* SpecMaint, SpecMaintSeq: POST /maint on the threads of the server
    maintenance,  \* runtime_state["maintenance"]
    config_yaml,  \* what config.yaml holds
    config_lock,  \* the thread inside "with config_lock", 0 when free
    maint_pc,     \* each thread's position in api_maint
    body,         \* api_maint's body, per thread
    config,       \* api_maint's config, per thread
    current,      \* api_maint's current, per thread
    new_state,    \* api_maint's new_state, per thread
    maint_resp,   \* the response each thread gave last
    before,       \* the flag when the thread's last request arrived
    saved,        \* how save_config ended in the thread's last request
    served,       \* requests each thread received since the server started
    last_thread,  \* the thread that answered last, 0 when none did
    started_as    \* the flag when the server started last

wakeVars == <<mac_in, wol_pc, wol>>
probeVars == <<target_in, env_ping, env_http, probe_pc, probe, status_resp>>
orchVars == <<pc, poll_i, wake_calls, wake_exc, datagrams, attempts, results,
              delays, observations, response>>
maintVars == <<maintenance, config_yaml, config_lock, maint_pc, body, config,
               current, new_state, maint_resp, before, saved, served,
               last_thread, started_as>>
serverVars == <<start_requests, maintVars>>
vars == <<wakeVars, probeVars, orchVars, serverVars>>

-----------------------------------------------------------------------------
(* Characters and string helpers                                           *)

UpperHex == <<"0","1","2","3","4","5","6","7","8","9","A","B","C","D","E","F">>
LowerHex == <<"0","1","2","3","4","5","6","7","8","9","a","b","c","d","e","f">>

IsHexDigit(c) == \E i \in 1..16 : UpperHex[i] = c \/ LowerHex[i] = c

HexVal(c) == (CHOOSE i \in 1..16 : UpperHex[i] = c \/ LowerHex[i] = c) - 1

\* Py_ISSPACE restricted to the characters of the model's alphabet
IsSpace(c) == c = " "

\* str.replace(c, ""): every occurrence of the character c removed
StrRemove(s, c) == SelectSeq(s, LAMBDA x : x # c)

\* s * n
StrRepeat(s, n) == [i \in 1..(n * Len(s)) |-> s[((i - 1) % Len(s)) + 1]]

Indices(s) == [i \in 1..Len(s) |-> i]

\* c in s
Contains(s, c) == \E i \in 1..Len(s) : s[i] = c

\* s.find(c) + 1: the first position of c in s, 0 when there is none
Find(s, c) ==
    IF Contains(s, c)
    THEN CHOOSE i \in 1..Len(s) : s[i] = c /\ \A j \in 1..(i - 1) : s[j] # c
    ELSE 0

\* s.split(c)
Split(s, c) ==
    LET P == SelectSeq(Indices(s), LAMBDA i : s[i] = c)
    IN  [k \in 1..(Len(P) + 1) |->
            SubSeq(s, IF k = 1 THEN 1 ELSE P[k - 1] + 1,
                      IF k = Len(P) + 1 THEN Len(s) ELSE P[k] - 1)]

\* s.startswith(p)
StartsWith(s, p) == Len(s) >= Len(p) /\ SubSeq(s, 1, Len(p)) = p

AsciiLower == <<"a","b","c","d","e","f","g","h","i","j","k","l","m",
                "n","o","p","q","r","s","t","u","v","w","x","y","z">>
AsciiUpper == <<"A","B","C","D","E","F","G","H","I","J","K","L","M",
                "N","O","P","Q","R","S","T","U","V","W","X","Y","Z">>

IsAsciiAlpha(c) == \E i \in 1..26 : AsciiLower[i] = c \/ AsciiUpper[i] = c

IsDigit(c) == \E i \in 1..10 : UpperHex[i] = c

\* c.lower()
LowerChar(c) ==
    IF \E i \in 1..26 : AsciiUpper[i] = c
    THEN AsciiLower[CHOOSE i \in 1..26 : AsciiUpper[i] = c]
    ELSE c

\* s.lower()
Lower(s) == [i \in 1..Len(s) |-> LowerChar(s[i])]

\* int(s) for a string of one to three decimal digits
DecVal(s) ==
    IF Len(s) = 1 THEN HexVal(s[1])
    ELSE IF Len(s) = 2 THEN 10 * HexVal(s[1]) + HexVal(s[2])
    ELSE 100 * HexVal(s[1]) + 10 * HexVal(s[2]) + HexVal(s[3])

-----------------------------------------------------------------------------
(* wake_on_lan                                                             *)

\* AI_SERVER_MAC = "D8:CB:8A:40:15:E5"
AI_SERVER_MAC ==
    <<"D","8",":","C","B",":","8","A",":","4","0",":","1","5",":","E","5">>

\* len(mac_address) != 12
MacHexLen == 12
\* 'FF' * 6
SyncRepeat == 6
\* mac_address * 16
MacRepeat == 16
\* ('<broadcast>', 9)
WolPort == 9

\* bytes.fromhex(s): whitespace is skipped before each byte, then exactly two
\* adjacent hexadecimal digits are read; anything else is a ValueError. So the
\* non-blank characters pair up in order, each pair adjacent and hexadecimal.
fromhex(s) ==
    LET P == SelectSeq([i \in 1..Len(s) |-> i], LAMBDA i : ~IsSpace(s[i]))
        n == Len(P) \div 2
        ok == /\ Len(P) % 2 = 0
              /\ \A k \in 1..n : /\ P[2 * k] = P[2 * k - 1] + 1
                                 /\ IsHexDigit(s[P[2 * k - 1]])
                                 /\ IsHexDigit(s[P[2 * k]])
    IN  [ok |-> ok,
         bytes |-> IF ok
                   THEN [k \in 1..n |->
                            16 * HexVal(s[P[2 * k - 1]]) + HexVal(s[P[2 * k]])]
                   ELSE <<>>]

\* Outcomes of the socket block (socket(), setsockopt(), sendto()): the
\* datagram is handed to the network stack, or an OSError is raised.
SockOutcomes == {"sent", "OSError"}

\* wake_on_lan(mac_address) with the outcome `sock` of the socket block.
\* exc is "none" when the call returns, else the exception it raises;
\* sent is the sequence of datagrams handed to the network stack.
wake_on_lan(mac_address, sock) ==
    LET mac == StrRemove(StrRemove(mac_address, ":"), "-")
    IN  IF Len(mac) # MacHexLen
        THEN [exc |-> "ValueError", sent |-> <<>>]
        ELSE LET data == fromhex(StrRepeat(<<"F","F">>, SyncRepeat)
                                 \o StrRepeat(mac, MacRepeat))
             IN  IF ~data.ok
                 THEN [exc |-> "ValueError", sent |-> <<>>]
                 ELSE IF sock = "OSError"
                 THEN [exc |-> "OSError", sent |-> <<>>]
                 ELSE [exc |-> "none",
                       sent |-> <<[data |-> data.bytes,
                                   host |-> "<broadcast>",
                                   port |-> WolPort]>>]

-----------------------------------------------------------------------------
(* _is_ip_address: ipaddress.ip_address(value) succeeds                    *)

\* One decimal octet of an IPv4 literal: one to three digits, no leading
\* zero, at most 255
IsOctet(o) ==
    /\ Len(o) >= 1
    /\ Len(o) <= 3
    /\ \A i \in 1..Len(o) : IsDigit(o[i])
    /\ ~(Len(o) > 1 /\ o[1] = "0")
    /\ DecVal(o) <= 255

\* ipaddress.IPv4Address(s) succeeds
IsIPv4(s) ==
    /\ ~Contains(s, "/")
    /\ LET octets == Split(s, ".")
       IN  Len(octets) = 4 /\ \A k \in 1..4 : IsOctet(octets[k])

\* One group of an IPv6 literal: one to four hexadecimal digits
IsHextet(h) ==
    /\ Len(h) >= 1
    /\ Len(h) <= 4
    /\ \A i \in 1..Len(h) : IsHexDigit(h[i])

\* The groups of an IPv6 literal with "::" at group sk: the groups before
\* and after it are hextets, and "::" stands for at least one group
IsIPv6Skip(parts, sk) ==
    LET n == Len(parts)
        firstEmpty == parts[1] = <<>>
        lastEmpty == parts[n] = <<>>
        hi == IF firstEmpty THEN sk - 2 ELSE sk - 1
        lo == IF lastEmpty THEN n - sk - 1 ELSE n - sk
    IN  /\ firstEmpty => hi = 0
        /\ lastEmpty => lo = 0
        /\ 8 - (hi + lo) >= 1
        /\ \A i \in 1..hi : IsHextet(parts[i])
        /\ \A i \in (n - lo + 1)..n : IsHextet(parts[i])

\* The groups of an IPv6 literal: at most one "::", else exactly 8 hextets
IsIPv6Parts(parts) ==
    LET n == Len(parts)
        skips == {i \in 2..(n - 1) : parts[i] = <<>>}
    IN  /\ n <= 9
        /\ Cardinality(skips) <= 1
        /\ IF skips # {}
           THEN IsIPv6Skip(parts, CHOOSE i \in skips : TRUE)
           ELSE n = 8 /\ \A i \in 1..n : IsHextet(parts[i])

\* The colon-separated parts of an IPv6 literal; a dotted last part is an
\* IPv4 literal and stands for two groups
IsIPv6Split(parts0) ==
    /\ Len(parts0) >= 3
    /\ IF Contains(parts0[Len(parts0)], ".")
       THEN /\ IsIPv4(parts0[Len(parts0)])
            /\ IsIPv6Parts(SubSeq(parts0, 1, Len(parts0) - 1)
                               \o <<<<"0">>, <<"0">>>>)
       ELSE IsIPv6Parts(parts0)

\* The address part of an IPv6 literal (the text before any %scope)
IsIPv6Addr(s) == IsIPv6Split(Split(s, ":"))

\* ipaddress.IPv6Address(s) succeeds
IsIPv6(s) ==
    /\ ~Contains(s, "/")
    /\ IF Contains(s, "%")
       THEN LET k == Find(s, "%")
                scope == SubSeq(s, k + 1, Len(s))
            IN  /\ scope # <<>>
                /\ ~Contains(scope, "%")
                /\ IsIPv6Addr(SubSeq(s, 1, k - 1))
       ELSE IsIPv6Addr(s)

_is_ip_address(value) == IsIPv4(value) \/ IsIPv6(value)

-----------------------------------------------------------------------------
(* urlparse(target), as far as is_online uses it: the scheme, and the      *)
(* ValueError it raises on a malformed bracketed host                      *)

IsSchemeChar(c) == IsAsciiAlpha(c) \/ IsDigit(c) \/ c \in {"+", "-", "."}

\* The host between brackets is an IPv6 literal or an IPvFuture address
\* (v, hexadecimal digits, a dot, then at least one character)
BracketedHostOk(h) ==
    IF StartsWith(h, <<"v">>)
    THEN \E k \in 2..Len(h) :
            /\ \A j \in 2..k : IsHexDigit(h[j])
            /\ k + 2 <= Len(h)
            /\ h[k + 1] = "."
    ELSE IsIPv6(h)

\* The text between the first "[" of the netloc and the next "]"
BracketedHost(afterLb) ==
    SubSeq(afterLb, 1, IF Contains(afterLb, "]")
                       THEN Find(afterLb, "]") - 1
                       ELSE Len(afterLb))

\* urlsplit raises ValueError: one bracket without the other, or a bracketed
\* host that is no IPv6 or IPvFuture address
BadBrackets(netloc) ==
    \/ (Contains(netloc, "[") /\ ~Contains(netloc, "]"))
    \/ (~Contains(netloc, "[") /\ Contains(netloc, "]"))
    \/ /\ Contains(netloc, "[")
       /\ Contains(netloc, "]")
       /\ ~BracketedHostOk(BracketedHost(
              SubSeq(netloc, Find(netloc, "[") + 1, Len(netloc))))

\* The position of the colon that ends the scheme of url, 0 when url has no
\* scheme: a letter, then letters, digits, "+", "-", "." up to the colon
SchemeEnd(url) ==
    LET i == Find(url, ":")
    IN  IF /\ i > 1
           /\ IsAsciiAlpha(url[1])
           /\ \A j \in 1..(i - 1) : IsSchemeChar(url[j])
        THEN i
        ELSE 0

\* The netloc of the text after the scheme: what follows "//" up to the
\* first "/", "?" or "#"
NetlocOf(rest) ==
    LET delims == {j \in 3..Len(rest) : rest[j] \in {"/", "?", "#"}}
    IN  IF StartsWith(rest, <<"/", "/">>)
        THEN SubSeq(rest, 3,
                    IF delims = {}
                    THEN Len(rest)
                    ELSE (CHOOSE j \in delims : \A k \in delims : j <= k) - 1)
        ELSE <<>>

urlparse_parts(scheme, netloc) ==
    [raised |-> BadBrackets(netloc), scheme |-> scheme, netloc |-> netloc]

urlparse_from(url, i) ==
    IF i > 0
    THEN urlparse_parts(Lower(SubSeq(url, 1, i - 1)),
                        NetlocOf(SubSeq(url, i + 1, Len(url))))
    ELSE urlparse_parts(<<>>, NetlocOf(url))

urlparse(url) == urlparse_from(url, SchemeEnd(url))

-----------------------------------------------------------------------------
(* The environment of one probe                                            *)

\* subprocess.call(["ping", "-c", "1", "-W", "1", target]): the exit status
\* of ping, or the OSError raised when the ping program cannot be started
\* (not installed, not executable, no process available)
PingOutcomes ==
    {[exc |-> "none", rc |-> r] : r \in {0, 1, 2}}
        \cup {[exc |-> "OSError", rc |-> 0 - 1]}

\* A server's answer to GET, or the RequestException of a transport failure
HttpOutcomes ==
    {[exc |-> "none", status |-> c] : c \in {200, 204, 404, 500}}
        \cup {[exc |-> e, status |-> 0] : e \in {"Timeout", "ConnectionError"}}

\* requests.get(url, timeout=1) with the outcome `http` of the exchange.
\* A URL without an http(s) scheme, without a host or with a malformed host
\* is refused with a RequestException before anything is sent.
requests_send(url, parsed, http) ==
    IF ~(StartsWith(Lower(url), <<"h","t","t","p",":","/","/">>)
           \/ StartsWith(Lower(url), <<"h","t","t","p","s",":","/","/">>))
    THEN [exc |-> "RequestException", status |-> 0, wire |-> 0]
    ELSE IF parsed.raised \/ parsed.netloc = <<>>
    THEN [exc |-> "RequestException", status |-> 0, wire |-> 0]
    ELSE IF http.exc # "none"
    THEN [exc |-> "RequestException", status |-> 0, wire |-> 1]
    ELSE [exc |-> "none", status |-> http.status, wire |-> 1]

requests_get(url, http) == requests_send(url, urlparse(url), http)

-----------------------------------------------------------------------------
(* is_online                                                               *)

\* is_online(target) with the outcomes `ping` and `http` the environment
\* gives to the probe it makes. exc is "none" when the call returns `value`,
\* else the exception that leaves the call; pings and gets count the calls
\* of subprocess.call and requests.get; url is the URL requested.
\* Lines 163-170: the ping branch
is_online_ping(ping) ==
    IF ping.exc # "none"
    THEN [exc |-> ping.exc, value |-> FALSE, pings |-> 1, gets |-> 0,
          url |-> <<>>, status |-> 0]
    ELSE [exc |-> "none", value |-> (ping.rc = 0), pings |-> 1, gets |-> 0,
          url |-> <<>>, status |-> 0]

\* Lines 180-184: the try block around requests.get
is_online_result(url, resp) ==
    IF resp.exc # "none"
    THEN [exc |-> "none", value |-> FALSE, pings |-> 0, gets |-> 1,
          url |-> url, status |-> 0]
    ELSE [exc |-> "none", value |-> (resp.status = 200), pings |-> 0,
          gets |-> 1, url |-> url, status |-> resp.status]

is_online_get(url, http) == is_online_result(url, requests_get(url, http))

\* Lines 173-184: the HTTP branch, parsed being urlparse(target)
is_online_http(target, parsed, http) ==
    IF parsed.raised
    THEN [exc |-> "ValueError", value |-> FALSE, pings |-> 0, gets |-> 0,
          url |-> <<>>, status |-> 0]
    ELSE IF parsed.scheme = <<>>
    THEN is_online_get(<<"h","t","t","p",":","/","/">> \o target, http)
    ELSE is_online_get(target, http)

is_online(target, ping, http) ==
    IF _is_ip_address(target)
    THEN is_online_ping(ping)
    ELSE is_online_http(target, urlparse(target), http)

-----------------------------------------------------------------------------
(* Initial values of the three parts of the state                          *)

WakeIdle ==
    /\ wol_pc = "ready"
    /\ wol = [exc |-> "none", sent |-> <<>>]

ProbeIdle ==
    /\ probe_pc = "ready"
    /\ probe = [exc |-> "none", value |-> FALSE, pings |-> 0, gets |-> 0,
                url |-> <<>>, status |-> 0]
    /\ status_resp = [code |-> 0, online |-> FALSE]

\* The two targets polled by api_log_redirect, in the order of its loops
T_AI_SERVER == <<"1","9","2",".","1","6","8",".","2","3",".","2","2">>
T_WEB_UI == <<"o","p","e","n","w","e","b","u","i",".","i","l","l","e","r","i","t",".","d","e">>
PollPlan == <<T_AI_SERVER, T_WEB_UI>>

-----------------------------------------------------------------------------
(* The maintenance flag: runtime_state (lines 33-35), config.yaml through  *)
(* load_config and save_config (lines 39-52), the start of the server      *)
(* (lines 277-291).                                                        *)
(* config.yaml is a record: kind "missing" (no file), "empty" (a file with *)
(* no document, as "open for writing" leaves it) or "dict"; maint is       *)
(* system.maintenance ("absent" when the key is not there); btn is the     *)
(* toggleState of the button whose endpoint is "/maint" ("none" when there *)
(* is no such button).                                                     *)

Threads == {1, 2}

PyStr(b) == IF b THEN "true" ELSE "false"

\* {"system": {}, "buttons": []}, the default of load_config
DefaultConfig == [kind |-> "dict", maint |-> "absent", btn |-> "none"]

\* {"system": {"ramTotalFormat": ..., "maintenance": False}} of line 280
SampleConfig == [kind |-> "dict", maint |-> "false", btn |-> "none"]

NoFile == [kind |-> "missing", maint |-> "absent", btn |-> "none"]
EmptyFile == [kind |-> "empty", maint |-> "absent", btn |-> "none"]

\* load_config(): the default for a missing file and for a file whose
\* document is None, the document otherwise
load_config(file) ==
    IF file.kind = "missing" THEN DefaultConfig
    ELSE IF file.kind = "empty" THEN DefaultConfig
    ELSE file

\* Lines 279-284: a missing config.yaml is created from the sample
StartupFile(file) == IF file.kind = "missing" THEN SampleConfig ELSE file

\* Lines 287-288: bool(cfg.get("system", {}).get("maintenance", False))
StartupFlag_Inverted(file) == load_config(file).maint # "true"
StartupFlag(file) == load_config(file).maint = "true"

\* config.yaml as the server may find it when it starts
PreStartFiles ==
    { NoFile, EmptyFile, SampleConfig,
      [kind |-> "dict", maint |-> "true", btn |-> "none"],
      [kind |-> "dict", maint |-> "absent", btn |-> "false"],
      [kind |-> "dict", maint |-> "true", btn |-> "true"] }

(* The request body. is_json is request.is_json; doc is the JSON text:     *)
(* kind "invalid" (not JSON), "object", "null" or "string"; has_set says   *)
(* that "set" in doc holds (a key of the object, a substring of the        *)
(* string); set is the JSON value of the key.                              *)
SetValues == {"true", "false", "\"false\""}
NoSet == "-"
JsonDoc(kind, has_set, set) == [kind |-> kind, has_set |-> has_set, set |-> set]
EmptyDict == JsonDoc("object", FALSE, NoSet)
JsonDocs ==
    { JsonDoc("invalid", FALSE, NoSet), EmptyDict, JsonDoc("null", FALSE, NoSet),
      JsonDoc("string", TRUE, NoSet), JsonDoc("string", FALSE, NoSet) }
    \cup { JsonDoc("object", TRUE, v) : v \in SetValues }
MaintRequests == [is_json : BOOLEAN, doc : JsonDocs]

\* Lines 194-199: body = {} unless the request is JSON and parses
get_body(req) ==
    IF ~req.is_json THEN EmptyDict
    ELSE IF req.doc.kind = "invalid" THEN EmptyDict
    ELSE req.doc

\* bool(body["set"]) for the JSON values of SetValues
PyBool(v) == v \in {"true", "\"false\""}

\* Line 202: "set" in body raises TypeError for None
InRaises(b) == b.kind = "null"
\* Line 203: body["set"] raises TypeError for a str
GetItemRaises(b) == b.kind = "string"

\* Lines 202-205
NewState(b, cur) == IF b.has_set THEN PyBool(b.set) ELSE ~cur

\* Lines 212-221: the config after the handler's updates
UpdatedConfig(cfg, new) ==
    [kind |-> "dict",
     maint |-> PyStr(new),
     btn |-> IF cfg.btn = "none" THEN "none" ELSE PyStr(new)]

NoResponse == [code |-> 0, status |-> "", maintenance |-> FALSE, error |-> FALSE]
\* Flask's answer to an exception that leaves the handler
MaintCrashed == [code |-> 500, status |-> "error", maintenance |-> FALSE, error |-> FALSE]
\* Lines 229-236
SaveFailedResponse_Is500(new) ==
    [code |-> 500, status |-> "error", maintenance |-> new, error |-> TRUE]
SaveFailedResponse(new) ==
    [code |-> 200, status |-> "ok", maintenance |-> new, error |-> TRUE]
\* Line 238
MaintOkResponse(new) ==
    [code |-> 200, status |-> "ok", maintenance |-> new, error |-> FALSE]

\* Most requests POST /maint between two starts of the server
MaxMaintRequests == 2

\* No request is being handled
MaintIdle ==
    /\ config_lock = 0
    /\ maint_pc = [t \in Threads |-> "idle"]
    /\ body = [t \in Threads |-> EmptyDict]
    /\ config = [t \in Threads |-> NoFile]
    /\ current = [t \in Threads |-> FALSE]
    /\ new_state = [t \in Threads |-> FALSE]
    /\ maint_resp = [t \in Threads |-> NoResponse]
    /\ before = [t \in Threads |-> FALSE]
    /\ saved = [t \in Threads |-> "none"]
    /\ served = [t \in Threads |-> 0]
    /\ last_thread = 0

\* The server outside SpecMaint: started, no request POST /maint
MaintOff ==
    /\ maintenance = FALSE
    /\ started_as = FALSE
    /\ config_yaml = SampleConfig
    /\ MaintIdle

ServerIdle ==
    /\ start_requests = 0
    /\ MaintOff

OrchIdle ==
    /\ pc = "wake"
    /\ poll_i = 1
    /\ wake_calls = 0
    /\ wake_exc = "none"
    /\ datagrams = <<>>
    /\ attempts = [i \in 1..Len(PollPlan) |-> 0]
    /\ results = [i \in 1..Len(PollPlan) |-> <<>>]
    /\ delays = [i \in 1..Len(PollPlan) |-> 0]
    /\ observations = [i \in 1..Len(PollPlan) |-> 0]
    /\ response = [code |-> 0, status |-> "", logged |-> FALSE]

-----------------------------------------------------------------------------
(* SpecWake: wake_on_lan applied to a bounded set of address strings       *)

\* The octets of AI_SERVER_MAC
BaseOctets ==
    <<<<"D","8">>, <<"C","B">>, <<"8","A">>, <<"4","0">>, <<"1","5">>, <<"E","5">>>>

\* Largest number of groups in an input address string
MaxGroups == 7

\* Groups that replace one octet of an input: blanks, a blank inside an
\* octet, a non-hexadecimal letter, lower case, one digit, three digits
OddGroups ==
    { <<" "," ">>, <<"A"," ">>, <<" ","A">>, <<"G","0">>, <<"a","b">>,
      <<"F">>, <<"0","1","2">> }

Separators == { <<>>, <<":">>, <<"-">> }

RECURSIVE JoinGroups(_, _)
JoinGroups(gs, sep) ==
    IF Len(gs) = 0 THEN <<>>
    ELSE IF Len(gs) = 1 THEN gs[1]
    ELSE gs[1] \o sep \o JoinGroups(Tail(gs), sep)

\* n groups taken cyclically from BaseOctets, group p (if p > 0) replaced by g
GroupsOf(n, p, g) ==
    [k \in 1..n |-> IF k = p THEN g ELSE BaseOctets[((k - 1) % 6) + 1]]

MacInputs ==
    { JoinGroups(GroupsOf(n, 0, <<>>), sep) :
          n \in (MaxGroups - 3)..MaxGroups, sep \in Separators }
    \cup
    { JoinGroups(GroupsOf(x[1], x[2], x[3]), x[4]) :
          x \in { y \in ((MaxGroups - 3)..MaxGroups) \X (1..MaxGroups)
                            \X OddGroups \X Separators : y[2] <= y[1] } }

InitWake ==
    /\ mac_in \in MacInputs
    /\ WakeIdle
    /\ target_in = <<>> /\ env_ping \in {[exc |-> "none", rc |-> 0]}
    /\ env_http \in {[exc |-> "none", status |-> 200]}
    /\ ProbeIdle
    /\ OrchIdle
    /\ ServerIdle

\* One call wake_on_lan(mac_in)
CallWakeOnLan ==
    /\ wol_pc = "ready"
    /\ \E sock \in SockOutcomes : wol' = wake_on_lan(mac_in, sock)
    /\ wol_pc' = "done"
    /\ UNCHANGED <<mac_in, probeVars, orchVars, serverVars>>

NextWake == CallWakeOnLan

SpecWake == InitWake /\ [][NextWake]_vars

-----------------------------------------------------------------------------
(* SpecProbe: is_online and GET /status/<ip> on a bounded set of targets   *)

Targets ==
    { <<"1","9","2",".","1","6","8",".","2","3",".","2","2">>,  \* "192.168.23.22"
      <<"1","9","2",".","1","6","8",".","2","3",".","1">>,  \* "192.168.23.1"
      <<"2","0","3",".","0",".","1","1","3",".","5">>,  \* "203.0.113.5"
      <<":",":","1">>,  \* "::1"
      <<"f","e","8","0",":",":","1">>,  \* "fe80::1"
      <<"o","p","e","n","w","e","b","u","i",".","i","l","l","e","r","i","t",".","d","e">>,  \* "openwebui.illerit.de"
      <<"e","x","a","m","p","l","e",".","i","n","t","e","r","n","a","l">>,  \* "example.internal"
      <<>>,  \* ""
      <<"h","t","t","p",":","/","/","[">>,  \* "http://["
      <<"h","t","t","p",":","/","/","a","]">>,  \* "http://a]"
      <<"h","t","t","p",":","/","/","e","x","a","m","p","l","e",".","i","n","t","e","r","n","a","l","/">>,  \* "http://example.internal/"
      <<"h","t","t","p","s",":","/","/","o","p","e","n","w","e","b","u","i",".","i","l","l","e","r","i","t",".","d","e">>,  \* "https://openwebui.illerit.de"
      <<"l","o","c","a","l","h","o","s","t",":","8","0","8","0">>,  \* "localhost:8080"
      <<"2","5","6",".","1",".","1",".","1">>,  \* "256.1.1.1"
      <<"0","1",".","2",".","3",".","4">>,  \* "01.2.3.4"
      <<"f","t","p",":","/","/","x">>,  \* "ftp://x"
      <<"h","t","t","p",":","/","/">>,  \* "http://"
      <<"[","x">>,  \* "[x"
      <<"h","t","t","p",":","/","/","[",":",":","1","]">>  \* "http://[::1]"
    }

\* @app.route("/status/<ip>"): the path parameter is a non-empty string
\* without a slash
RouteMatches(ip) == ip # <<>> /\ ~Contains(ip, "/")

\* api_web_ui_status(ip): an exception leaving the view function is answered
\* with HTTP 500 by the framework
api_web_ui_status(ip, ping, http) ==
    LET online == is_online(ip, ping, http)
    IN  IF online.exc # "none"
        THEN [code |-> 500, online |-> FALSE]
        ELSE [code |-> 200, online |-> online.value]

InitProbe ==
    /\ target_in \in Targets
    /\ env_ping \in PingOutcomes
    /\ env_http \in HttpOutcomes
    /\ ProbeIdle
    /\ mac_in = AI_SERVER_MAC
    /\ WakeIdle
    /\ OrchIdle
    /\ ServerIdle

\* One call is_online(target_in)
CallIsOnline ==
    /\ probe_pc = "ready"
    /\ probe' = is_online(target_in, env_ping, env_http)
    /\ probe_pc' = "called"
    /\ UNCHANGED <<target_in, env_ping, env_http, status_resp, wakeVars, orchVars, serverVars>>

\* One request GET /status/<target_in>
ApiWebUiStatus ==
    /\ probe_pc = "ready"
    /\ RouteMatches(target_in)
    /\ probe' = is_online(target_in, env_ping, env_http)
    /\ status_resp' = api_web_ui_status(target_in, env_ping, env_http)
    /\ probe_pc' = "served"
    /\ UNCHANGED <<target_in, env_ping, env_http, wakeVars, orchVars, serverVars>>

NextProbe == CallIsOnline \/ ApiWebUiStatus

SpecProbe == InitProbe /\ [][NextProbe]_vars

-----------------------------------------------------------------------------
(* Spec: one request POST /get-webui handled by api_log_redirect.          *)
(* The handler's positions: "wake" (line 250), "probe" (the is_online of   *)
(* the loop poll_i, lines 252 and 256), "sleep" (lines 253 and 257),       *)
(* "print" (lines 254 and 258), "return" (line 260), then "done"; "failed" *)
(* when an exception has left the view function.                           *)

\* Most probes of one target in a run of the model
MaxProbes == 6

\* Position after wake_on_lan(AI_SERVER_MAC): an exception leaves the handler
AfterWake_Swallowed(w) == "probe"
AfterWake(w) == IF w.exc # "none" THEN "failed" ELSE "probe"

\* while not is_online(...): the loop ends when the probe returned True
LoopExits_Inverted(online) == ~online
LoopExits_Always(online) == TRUE
LoopExits(online) == online

\* The loop body starts with time.sleep(1) ...
AfterFailedProbe_NoSleep == "print"
AfterFailedProbe == "sleep"

\* ... goes on with print("Waiting for ...") ...
AfterSleep_NoPrint == "probe"
AfterSleep == "print"

\* ... and returns to the loop's test
AfterPrint_Rewake == "wake"
AfterPrint == "probe"

\* The response to an unhandled exception, and jsonify(...), 200 of line 260
ErrorResponse == [code |-> 500, status |-> "error", logged |-> FALSE]
OkResponse == [code |-> 200, status |-> "ok", logged |-> TRUE]

Init ==
    /\ OrchIdle
    /\ mac_in = AI_SERVER_MAC
    /\ WakeIdle
    /\ target_in = <<>>
    /\ env_ping = [exc |-> "none", rc |-> 0]
    /\ env_http = [exc |-> "none", status |-> 200]
    /\ ProbeIdle
    /\ ServerIdle

\* Line 250: wake_on_lan(AI_SERVER_MAC)
LogRedirectWake ==
    /\ pc = "wake"
    /\ \E sock \in SockOutcomes :
          LET w == wake_on_lan(AI_SERVER_MAC, sock)
          IN  /\ wake_calls' = wake_calls + 1
              /\ wake_exc' = w.exc
              /\ datagrams' = datagrams \o w.sent
              /\ pc' = AfterWake(w)
              /\ response' = IF w.exc # "none" THEN ErrorResponse ELSE response
    /\ UNCHANGED <<poll_i, attempts, results, delays, observations>>
    /\ UNCHANGED <<wakeVars, probeVars, serverVars>>

\* Lines 252 and 256: one evaluation of `not is_online(<target poll_i>)`
LogRedirectProbe ==
    /\ pc = "probe"
    /\ attempts[poll_i] < MaxProbes
    /\ \E ping \in PingOutcomes, http \in HttpOutcomes :
          LET r == is_online(PollPlan[poll_i], ping, http)
          IN  /\ attempts' = [attempts EXCEPT ![poll_i] = @ + 1]
              /\ IF r.exc # "none"
                 THEN /\ pc' = "failed"
                      /\ response' = ErrorResponse
                      /\ UNCHANGED <<results, poll_i>>
                 ELSE /\ results' = [results EXCEPT ![poll_i] = Append(@, r.value)]
                      /\ UNCHANGED response
                      /\ IF LoopExits(r.value)
                         THEN IF poll_i < Len(PollPlan)
                              THEN pc' = "probe" /\ poll_i' = poll_i + 1
                              ELSE pc' = "return" /\ UNCHANGED poll_i
                         ELSE pc' = AfterFailedProbe /\ UNCHANGED poll_i
    /\ UNCHANGED <<wake_calls, wake_exc, datagrams, delays, observations>>
    /\ UNCHANGED <<wakeVars, probeVars, serverVars>>

\* Lines 253 and 257: time.sleep(1)
LogRedirectSleep ==
    /\ pc = "sleep"
    /\ delays' = [delays EXCEPT ![poll_i] = @ + 1]
    /\ pc' = AfterSleep
    /\ UNCHANGED <<poll_i, wake_calls, wake_exc, datagrams, attempts, results,
                   observations, response>>
    /\ UNCHANGED <<wakeVars, probeVars, serverVars>>

\* Lines 254 and 258: print("Waiting for ... to come online...")
LogRedirectPrint ==
    /\ pc = "print"
    /\ observations' = [observations EXCEPT ![poll_i] = @ + 1]
    /\ pc' = AfterPrint
    /\ UNCHANGED <<poll_i, wake_calls, wake_exc, datagrams, attempts, results,
                   delays, response>>
    /\ UNCHANGED <<wakeVars, probeVars, serverVars>>

\* Line 260: return jsonify({"status": "ok", "logged": True}), 200
LogRedirectReturn ==
    /\ pc = "return"
    /\ response' = OkResponse
    /\ pc' = "done"
    /\ UNCHANGED <<poll_i, wake_calls, wake_exc, datagrams, attempts, results,
                   delays, observations>>
    /\ UNCHANGED <<wakeVars, probeVars, serverVars>>

Next ==
    \/ LogRedirectWake
    \/ LogRedirectProbe
    \/ LogRedirectSleep
    \/ LogRedirectPrint
    \/ LogRedirectReturn

Spec == Init /\ [][Next]_vars

-----------------------------------------------------------------------------
(* SpecStart: requests POST /start-ki-server handled by                    *)
(* api_start_ki_server, one after the other, whatever the ping and the     *)
(* HTTP exchange would answer (env_ping, env_http). The handler's          *)
(* positions are "wake" (line 265), "return" (line 267), "done", "failed". *)

\* Most requests POST /start-ki-server in a run of the model
MaxStartRequests == 3

\* Position after wake_on_lan(AI_SERVER_MAC) on line 265
StartAfterWake_Polls(w) == AfterWake(w)
StartAfterWake(w) == IF w.exc # "none" THEN "failed" ELSE "return"

InitStart ==
    /\ OrchIdle
    /\ start_requests = 1
    /\ MaintOff
    /\ env_ping \in PingOutcomes
    /\ env_http \in HttpOutcomes
    /\ target_in = <<>>
    /\ ProbeIdle
    /\ mac_in = AI_SERVER_MAC
    /\ WakeIdle

\* Line 265: wake_on_lan(AI_SERVER_MAC)
StartKiWake ==
    /\ pc = "wake"
    /\ \E sock \in SockOutcomes :
          LET w == wake_on_lan(AI_SERVER_MAC, sock)
          IN  /\ wake_calls' = wake_calls + 1
              /\ wake_exc' = w.exc
              /\ datagrams' = datagrams \o w.sent
              /\ pc' = StartAfterWake(w)
              /\ response' = IF w.exc # "none" THEN ErrorResponse ELSE response
    /\ UNCHANGED <<poll_i, attempts, results, delays, observations>>
    /\ UNCHANGED <<wakeVars, probeVars, serverVars>>

\* Line 267: return jsonify({"status": "ok", "logged": True}), 200
StartKiReturn ==
    /\ pc = "return"
    /\ response' = OkResponse
    /\ pc' = "done"
    /\ UNCHANGED <<poll_i, wake_calls, wake_exc, datagrams, attempts, results,
                   delays, observations>>
    /\ UNCHANGED <<wakeVars, probeVars, serverVars>>

\* The next request arrives once the previous one is answered
StartKiNext ==
    /\ pc \in {"done", "failed"}
    /\ start_requests < MaxStartRequests
    /\ start_requests' = start_requests + 1
    /\ pc' = "wake"
    /\ wake_calls' = 0
    /\ wake_exc' = "none"
    /\ datagrams' = <<>>
    /\ response' = [code |-> 0, status |-> "", logged |-> FALSE]
    /\ UNCHANGED <<poll_i, attempts, results, delays, observations>>
    /\ UNCHANGED <<wakeVars, probeVars, maintVars>>

NextStart == StartKiWake \/ StartKiReturn \/ StartKiNext

SpecStart == InitStart /\ [][NextStart]_vars

-----------------------------------------------------------------------------
(* SpecMaint: requests POST /maint handled by api_maint on the threads of  *)
(* the server, and restarts of the server between requests. A thread's     *)
(* positions are "idle", "read" (line 201), "write" (line 207), "save"     *)
(* (line 50, before the lock is taken) and "dump" (line 52, inside the     *)
(* lock, config.yaml opened for writing).                                  *)

Served == served[1] + served[2]
AllIdle == \A t \in Threads : maint_pc[t] = "idle"

InitMaint ==
    /\ \E file \in PreStartFiles :
          /\ config_yaml = StartupFile(file)
          /\ maintenance = StartupFlag(StartupFile(file))
          /\ started_as = StartupFlag(StartupFile(file))
    /\ MaintIdle
    /\ start_requests = 0
    /\ OrchIdle
    /\ env_ping = [exc |-> "none", rc |-> 0]
    /\ env_http = [exc |-> "none", status |-> 200]
    /\ target_in = <<>>
    /\ ProbeIdle
    /\ mac_in = AI_SERVER_MAC
    /\ WakeIdle

\* The handler returns resp; how tells how save_config ended
MaintAnswer(t, resp, how) ==
    /\ maint_resp' = [maint_resp EXCEPT ![t] = resp]
    /\ saved' = [saved EXCEPT ![t] = how]
    /\ maint_pc' = [maint_pc EXCEPT ![t] = "idle"]
    /\ config' = [config EXCEPT ![t] = NoFile]
    /\ current' = [current EXCEPT ![t] = FALSE]
    /\ new_state' = [new_state EXCEPT ![t] = FALSE]
    /\ last_thread' = t

\* Lines 193-199: a request arrives; config = load_config(), body
MaintLoadConfig(t) ==
    /\ maint_pc[t] = "idle"
    /\ Served < MaxMaintRequests
    /\ \E req \in MaintRequests : body' = [body EXCEPT ![t] = get_body(req)]
    /\ config' = [config EXCEPT ![t] = load_config(config_yaml)]
    /\ before' = [before EXCEPT ![t] = maintenance]
    /\ served' = [served EXCEPT ![t] = @ + 1]
    /\ maint_resp' = [maint_resp EXCEPT ![t] = NoResponse]
    /\ saved' = [saved EXCEPT ![t] = "none"]
    /\ maint_pc' = [maint_pc EXCEPT ![t] = "read"]
    /\ UNCHANGED <<maintenance, config_yaml, config_lock, current, new_state,
                   last_thread, started_as>>
    /\ UNCHANGED <<wakeVars, probeVars, orchVars, start_requests>>

\* Lines 201-205: current and new_state; a TypeError leaves the handler
MaintRead(t) ==
    /\ maint_pc[t] = "read"
    /\ IF InRaises(body[t]) \/ (body[t].has_set /\ GetItemRaises(body[t]))
       THEN MaintAnswer(t, MaintCrashed, "none")
       ELSE /\ current' = [current EXCEPT ![t] = maintenance]
            /\ new_state' = [new_state EXCEPT ![t] = NewState(body[t], maintenance)]
            /\ maint_pc' = [maint_pc EXCEPT ![t] = "write"]
            /\ UNCHANGED <<config, maint_resp, saved, last_thread>>
    /\ UNCHANGED <<maintenance, config_yaml, config_lock, body, before, served,
                   started_as>>
    /\ UNCHANGED <<wakeVars, probeVars, orchVars, start_requests>>

\* Lines 207-222: the flag is written, the loaded config is updated
MaintWrite(t) ==
    /\ maint_pc[t] = "write"
    /\ maintenance' = new_state[t]
    /\ config' = [config EXCEPT ![t] = UpdatedConfig(config[t], new_state[t])]
    /\ maint_pc' = [maint_pc EXCEPT ![t] = "save"]
    /\ UNCHANGED <<config_yaml, config_lock, body, current, new_state,
                   maint_resp, before, saved, served, last_thread, started_as>>
    /\ UNCHANGED <<wakeVars, probeVars, orchVars, start_requests>>

\* Lines 50-51: the lock is taken and config.yaml opened for writing, which
\* empties it; if it cannot be opened the lock is released and the handler
\* answers from line 229
MaintSaveOpen(t) ==
    /\ maint_pc[t] = "save"
    /\ config_lock = 0
    /\ \E opened \in BOOLEAN :
          IF opened
          THEN /\ config_lock' = t
               /\ config_yaml' = EmptyFile
               /\ maint_pc' = [maint_pc EXCEPT ![t] = "dump"]
               /\ UNCHANGED <<config, current, new_state, maint_resp, saved,
                              last_thread>>
          ELSE /\ MaintAnswer(t, SaveFailedResponse(new_state[t]), "failed")
               /\ UNCHANGED <<config_lock, config_yaml>>
    /\ UNCHANGED <<maintenance, body, before, served, started_as>>
    /\ UNCHANGED <<wakeVars, probeVars, orchVars, start_requests>>

\* Line 52 and lines 227-238: yaml.safe_dump writes the config or fails,
\* the lock is released, the handler answers
MaintSaveDump(t) ==
    /\ maint_pc[t] = "dump"
    /\ config_lock = t
    /\ \E written \in BOOLEAN :
          IF written
          THEN /\ config_yaml' = config[t]
               /\ MaintAnswer(t, MaintOkResponse(new_state[t]), "ok")
          ELSE /\ config_yaml' = config_yaml
               /\ MaintAnswer(t, SaveFailedResponse(new_state[t]), "failed")
    /\ config_lock' = 0
    /\ UNCHANGED <<maintenance, body, before, served, started_as>>
    /\ UNCHANGED <<wakeVars, probeVars, orchVars, start_requests>>

\* Lines 277-291: the server is stopped between requests and started again
Restart ==
    /\ AllIdle
    /\ Served > 0
    /\ config_yaml' = StartupFile(config_yaml)
    /\ maintenance' = StartupFlag(StartupFile(config_yaml))
    /\ started_as' = StartupFlag(StartupFile(config_yaml))
    /\ served' = [t \in Threads |-> 0]
    /\ UNCHANGED <<config_lock, maint_pc, body, config, current, new_state,
                   maint_resp, before, saved, last_thread>>
    /\ UNCHANGED <<wakeVars, probeVars, orchVars, start_requests>>

NextMaint ==
    \/ \E t \in Threads : MaintLoadConfig(t)
    \/ \E t \in Threads : MaintRead(t)
    \/ \E t \in Threads : MaintWrite(t)
    \/ \E t \in Threads : MaintSaveOpen(t)
    \/ \E t \in Threads : MaintSaveDump(t)
    \/ Restart

SpecMaint == InitMaint /\ [][NextMaint]_vars

(* SpecMaintSeq: the same, with requests handled one at a time: a request  *)
(* arrives only when no other is being handled.                            *)
MaintLoadConfigSeq(t) ==
    /\ AllIdle
    /\ MaintLoadConfig(t)

NextMaintSeq ==
    \/ \E t \in Threads : MaintLoadConfigSeq(t)
    \/ \E t \in Threads : MaintRead(t)
    \/ \E t \in Threads : MaintWrite(t)
    \/ \E t \in Threads : MaintSaveOpen(t)
    \/ \E t \in Threads : MaintSaveDump(t)
    \/ Restart

SpecMaintSeq == InitMaint /\ [][NextMaintSeq]_vars

-----------------------------------------------------------------------------
(* Properties of api_log_redirect, checked under Spec                      *)

\* Some probe of target i has returned True
HasTrue(i) == \E k \in 1..Len(results[i]) : results[i][k]

\* C1: the targets are polled strictly in order: no probe of target i+1 has
\* been issued unless some probe of target i has returned true.
C1_TargetsPolledInOrder ==
    \A i \in 1..(Len(PollPlan) - 1) : attempts[i + 1] > 0 => HasTrue(i)

\* Target 2 is being probed after target 1 failed at least once
C1_Witness ==
    /\ attempts[2] > 0
    /\ Len(results[1]) >= 2
    /\ ~results[1][1]

\* C2: as long as some target has never had a probe return true, the handler
\* has not returned its success response, whatever the number of failed
\* probes so far; the response 200 is given only once every target has had a
\* probe return true.
C2_OkOnlyAfterAllReachable ==
    (\E i \in 1..Len(PollPlan) : ~HasTrue(i))
        => response.code # 200 /\ pc \notin {"return", "done"}

\* The success response, after three or more probes of each target
C2_Witness ==
    /\ pc = "done"
    /\ response = OkResponse
    /\ Len(results[1]) >= 3
    /\ Len(results[2]) >= 3

\* C3: wake_on_lan is called exactly once per request: once the handler is
\* past its first line the call count is 1 and stays 1, and any probe is
\* issued only after that call has returned; at most one datagram is sent.
C3_WakeOnceBeforeProbes ==
    /\ wake_calls <= 1
    /\ pc # "wake" => wake_calls = 1
    /\ (\E i \in 1..Len(PollPlan) : attempts[i] > 0)
          => wake_calls = 1 /\ wake_exc = "none"
    /\ Len(datagrams) <= 1

\* Still polling the first target after three failed probes and their
\* delays, with one wake signal sent
C3_Witness ==
    /\ pc = "probe"
    /\ poll_i = 1
    /\ attempts[1] >= 3
    /\ observations[1] >= 3
    /\ wake_calls = 1
    /\ Len(datagrams) = 1

\* C4: when wake_on_lan raises, the exception leaves the handler at once
\* (the request fails with an error response) and no probe of any target is
\* ever issued.
C4_WakeFailurePropagates ==
    wake_exc # "none"
        => /\ pc = "failed"
           /\ response = ErrorResponse
           /\ \A i \in 1..Len(PollPlan) : attempts[i] = 0 /\ delays[i] = 0
           /\ datagrams = <<>>

\* The broadcast failed
C4_Witness == wake_calls = 1 /\ wake_exc = "OSError" /\ pc = "failed"

\* C5 (as amended): when the probes of T1 return false, false, true and the
\* probe of T2 returns true, exactly 3 probes are made on T1, with 2 delays
\* elapsed, before T2 is probed exactly once; and the call has not completed
\* while T2 has not been probed.
C5_ThreeProbesTwoDelays ==
    /\ (results[1] = <<FALSE, FALSE, TRUE>> /\ results[2] = <<TRUE>>)
          => /\ attempts[1] = 3
             /\ delays[1] = 2
             /\ attempts[2] = 1
             /\ delays[2] = 0
             /\ pc \in {"return", "done"}
    /\ (results[1] = <<FALSE, FALSE, TRUE>> /\ results[2] = <<>>)
          => /\ attempts[1] = 3
             /\ delays[1] = 2
             /\ response.code = 0
             /\ pc \in {"probe", "failed"}

\* The run of the scenario, completed
C5_Witness ==
    /\ pc = "done"
    /\ results[1] = <<FALSE, FALSE, TRUE>>
    /\ results[2] = <<TRUE>>

\* C5 (as stated): in that scenario exactly 2 probes are made on T1, with
\* one delay elapsed, before T2 is probed once.
C5_TwoProbesOneDelay ==
    (pc = "done" /\ results[1] = <<FALSE, FALSE, TRUE>> /\ results[2] = <<TRUE>>)
        => attempts[1] = 2 /\ delays[1] = 1 /\ attempts[2] = 1

\* C6: after a successful wake signal the request has no terminal outcome
\* other than Done with HTTP 200: it never ends in an error.
C6_OkIsOnlyOutcomeAfterWake ==
    (wake_calls = 1 /\ wake_exc = "none")
        => pc # "failed" /\ response.code \in {0, 200}

-----------------------------------------------------------------------------
(* Properties of is_online and GET /status/<ip>, checked under SpecProbe   *)

\* C7: is_online never raises: every call ends by returning a boolean.
C7_IsOnlineNeverRaises ==
    probe_pc # "ready" => probe.exc = "none" /\ probe.value \in BOOLEAN

\* C8: GET /status/<ip> with an IP literal whose echo probe cannot be run
\* answers HTTP 200 with {online: false}.
C8_StatusFalseWhenProbeCannotRun ==
    (probe_pc = "served" /\ _is_ip_address(target_in) /\ env_ping.exc # "none")
        => status_resp = [code |-> 200, online |-> FALSE]

\* C9: for a target that is no IP literal, is_online makes one
\* requests.get, on "http://" + target when the target has no scheme and on
\* the target otherwise, and returns true exactly when the response status
\* is 200.
C9_NamedTargetTrueIff200 ==
    (probe_pc = "called" /\ ~_is_ip_address(target_in))
        => /\ probe.exc = "none"
           /\ probe.gets = 1
           /\ probe.pings = 0
           /\ probe.url = IF urlparse(target_in).scheme = <<>>
                          THEN <<"h","t","t","p",":","/","/">> \o target_in
                          ELSE target_in
           /\ probe.value <=> probe.status = 200

-----------------------------------------------------------------------------
(* Properties of wake_on_lan, checked under SpecWake                       *)

\* d is 6 bytes 0xFF followed by 16 copies of one 6-byte address
IsMagicPacket(d) ==
    /\ Len(d) = 102
    /\ \A i \in 1..6 : d[i] = 255
    /\ \A r \in 1..15 : \A j \in 1..6 : d[6 + 6 * r + j] = d[6 + j]

\* C10: whenever wake_on_lan accepts its argument (raises no ValueError
\* and broadcasts), the payload is 102 bytes: 6 bytes 0xFF, then the 6-byte
\* address 16 times.
C10_AcceptedPayloadIs102Bytes ==
    (wol_pc = "done" /\ wol.exc = "none")
        => Len(wol.sent) = 1 /\ IsMagicPacket(wol.sent[1].data)


\* strip ':' and '-' (line 61)
Normalized(m) == StrRemove(StrRemove(m, ":"), "-")

\* Exactly 12 hexadecimal characters
IsTwelveHex(s) == Len(s) = 12 /\ \A i \in 1..Len(s) : IsHexDigit(s[i])

\* C11: an input whose form after stripping ':' and '-' is not exactly 12
\* hexadecimal characters makes wake_on_lan fail with ValueError, and no
\* datagram is broadcast.
C11_NotTwelveHexRejected ==
    (wol_pc = "done" /\ ~IsTwelveHex(Normalized(mac_in)))
        => wol.exc = "ValueError" /\ wol.sent = <<>>

-----------------------------------------------------------------------------
(* Properties of the polling loops of api_log_redirect, checked under Spec *)

\* The number of probes of target i that returned False
Fails(i) == Cardinality({k \in 1..Len(results[i]) : ~results[i][k]})

\* The last probe of target i returned b
LastResultIs(i, b) == Len(results[i]) > 0 /\ results[i][Len(results[i])] = b

\* C14: each failed probe of target i is followed by one delay and one
\* observation and then by another probe of target i; a successful probe
\* is followed by neither. So at every test of a loop, and once the loop is
\* left, the delays and the observations of a target both equal its failed
\* probes, and inside the loop body they lag by at most one.
C14_DelaysAndObservationsMatchFails ==
    \A i \in 1..Len(PollPlan) :
        /\ (i # poll_i \/ pc \notin {"sleep", "print"})
              => delays[i] = Fails(i) /\ observations[i] = Fails(i)
        /\ (i = poll_i /\ pc \in {"sleep", "print"})
              => /\ LastResultIs(i, FALSE)
                 /\ delays[i] \in {Fails(i) - 1, Fails(i)}
                 /\ observations[i] \in {Fails(i) - 1, Fails(i)}
        /\ (i = poll_i /\ pc = "probe" /\ Len(results[i]) > 0)
              => LastResultIs(i, FALSE)
        /\ LastResultIs(i, TRUE)
              => (poll_i > i \/ pc \in {"return", "done"})

\* Both loops left after failures: two on the first target, one on the second
C14_Witness ==
    /\ pc = "done"
    /\ Fails(1) = 2 /\ delays[1] = 2 /\ observations[1] = 2
    /\ Fails(2) = 1 /\ delays[2] = 1 /\ observations[2] = 1

\* C15 (as amended): after a failed probe the handler first sleeps for the
\* poll interval and then emits the observation: while it sleeps the
\* observation of this failure is not yet emitted, and when it emits the
\* observation the delay has already elapsed.
C15_DelayBeforeObservation ==
    /\ pc = "sleep"
          => /\ delays[poll_i] = Fails(poll_i) - 1
             /\ observations[poll_i] = Fails(poll_i) - 1
    /\ pc = "print"
          => /\ delays[poll_i] = Fails(poll_i)
             /\ observations[poll_i] = Fails(poll_i) - 1

\* About to emit the second observation of the second target
C15_Witness ==
    /\ pc = "print"
    /\ poll_i = 2
    /\ Fails(2) = 2
    /\ delays[2] = 2
    /\ observations[2] = 1

\* C15 (as stated): the observation of a failed probe is emitted before the
\* handler suspends, so while it sleeps every failure so far has its
\* observation.
C15_ObservationBeforeDelay ==
    pc = "sleep" => observations[poll_i] = Fails(poll_i)

-----------------------------------------------------------------------------
(* Properties of api_start_ki_server, checked under SpecStart              *)

\* C12: the wake-only handler calls wake_on_lan exactly once, is never at a
\* probe, a delay or an observation, and once the signal is handed to the
\* network stack it goes straight to its return and answers 200 with
\* {status: ok, logged: true}, whatever the targets would answer.
C12_WakeOnlyNoPolling ==
    /\ pc \in {"wake", "return", "done", "failed"}
    /\ \A i \in 1..Len(PollPlan) :
          attempts[i] = 0 /\ delays[i] = 0 /\ observations[i] = 0
    /\ wake_calls <= 1
    /\ pc # "wake" => wake_calls = 1
    /\ (pc # "wake" /\ wake_exc = "none")
          => pc \in {"return", "done"} /\ Len(datagrams) = 1
    /\ pc = "done" => response = OkResponse /\ wake_exc = "none"

\* Answered 200 while neither target is reachable
C12_Witness ==
    /\ pc = "done"
    /\ response = OkResponse
    /\ wake_calls = 1
    /\ env_ping.exc = "none" /\ env_ping.rc # 0
    /\ env_http.exc # "none"

-----------------------------------------------------------------------------
(* Properties of api_maint, checked under SpecMaintSeq and SpecMaint       *)

\* What a request must report: the flag it found flipped when the body has
\* no "set", bool(set) otherwise
Reported(t) == IF body[t].has_set THEN PyBool(body[t].set) ELSE ~before[t]

\* C13: with requests handled one at a time, once a request has persisted
\* the flag, it has reported the flag it found flipped (no "set") or
\* bool(set), the runtime flag is the reported value, and it still is after
\* the server has been started again.
C13_SequentialFlagSurvivesRestart ==
    \A t \in Threads :
        (AllIdle /\ last_thread = t /\ saved[t] = "ok")
            => /\ maint_resp[t].code = 200
               /\ maint_resp[t].maintenance = Reported(t)
               /\ maintenance = Reported(t)

\* A request with "set", then one without, then a restart
C13_Witness ==
    /\ AllIdle
    /\ Served = 0
    /\ last_thread = 2
    /\ saved[1] = "ok" /\ body[1].has_set
    /\ saved[2] = "ok" /\ ~body[2].has_set
    /\ maint_resp[2].maintenance = TRUE
    /\ maintenance = TRUE

\* C16: with requests handled one at a time, when save_config failed the
\* request answered 200 with status ok, the new value and an error, and the
\* runtime flag is the new value, not the one before the request.
C16_SaveFailureKeepsNewFlag ==
    \A t \in Threads :
        (AllIdle /\ Served > 0 /\ last_thread = t /\ saved[t] = "failed")
            => /\ maint_resp[t] = [code |-> 200, status |-> "ok",
                                   maintenance |-> Reported(t), error |-> TRUE]
               /\ maintenance = Reported(t)

\* The flag is on, config.yaml still says off
C16_Witness ==
    /\ AllIdle
    /\ Served > 0
    /\ last_thread = 1
    /\ saved[1] = "failed"
    /\ maintenance = TRUE
    /\ before[1] = FALSE
    /\ config_yaml.kind = "dict"
    /\ config_yaml.maint = "false"

\* Each thread has handled one request since the server started
OneRequestEach == AllIdle /\ \A t \in Threads : served[t] = 1

\* C17: once two concurrent requests have completed, both having written
\* config.yaml, system.maintenance in config.yaml is the runtime flag.
C17_PersistedEqualsRuntime ==
    (OneRequestEach /\ \A t \in Threads : saved[t] = "ok")
        => /\ config_yaml.kind = "dict"
           /\ config_yaml.maint = PyStr(maintenance)

\* C18: once two concurrent requests without "set" have completed, the
\* runtime flag is what it was before the two, and the two responses
\* report different values.
C18_NoToggleLost ==
    (/\ OneRequestEach
     /\ \A t \in Threads : ~body[t].has_set /\ maint_resp[t].code = 200)
        => /\ maintenance = started_as
           /\ maint_resp[1].maintenance # maint_resp[2].maintenance

====
